---- MODULE Spec2Model ----
(***************************************************************************)
(* Section7_6-Bayesian-Neural-Networks.ipynb as a state machine.           *)
(*                                                                         *)
(* The notebook is a straight-line script of 82 simple statements in 16    *)
(* code cells, run top to bottom in one kernel.  A statement is begun      *)
(* (its names are looked up, its call is entered) and then either returns  *)
(* (its targets are bound) or raises.  After the last statement of a with  *)
(* block the model's __exit__ is called, which returns or raises too.      *)
(* Arrays are modelled by the set of their rows and their shape;           *)
(* probabilities are in percent.                                           *)
(***************************************************************************)
EXTENDS Integers, Sequences, FiniteSets, TLC

VARIABLES
    pc,            \* index in Prog of the statement to run next
    active,        \* statements whose call has been entered and has not returned
    exiting,       \* the active statement has returned and its with block is being left
    outcome,       \* "running" | "raised" | "finished"
    error,         \* "none" | "NameError" | "LibraryError" (raised by an import or a call)
    env,           \* the namespace: name -> statement that bound it (0: unbound, -1: the kernel)
    stageLog,      \* the stages entered so far, in order (history)
    heldOutReads,  \* statements that have read X_test or y_test (history)
    lastRun,       \* the split of the complete run before a kernel restart (history)
    X, y,                                \* the generated data set
    X_train, X_test, y_train, y_test,    \* its two partitions
    ann_input, ann_output,               \* the theano shared variables
    init_1, init_2, init_out,            \* initial values of the weights
    neural_network,                      \* the pm.Model being declared
    approx, trace,                       \* the fitted approximation, its sample
    node, sample_proba,                  \* the sampled node, the compiled function
    pred, accuracy,                      \* hold-out predictions, printed accuracy
    grid, grid_2d, ppc,                  \* the evaluation grid, its predictions
    surface, cbarLabel                   \* what the first contour plot draws and says

ctl == <<pc, active, exiting, outcome, error, env, stageLog, heldOutReads, lastRun>>
dat == <<X, y, X_train, X_test, y_train, y_test, ann_input, ann_output,
         init_1, init_2, init_out, neural_network, approx, trace, node, sample_proba,
         pred, accuracy, grid, grid_2d, ppc, surface, cbarLabel>>
vars == <<ctl, dat>>

----------------------------------------------------------------------------
(* One statement of the notebook: its cell, its line in the .ipynb file,   *)
(* the stage it belongs to, the library entry point it calls ("" when it   *)
(* calls none), the keyword arguments the call is given, the names it      *)
(* reads and the names it binds.                                           *)
Stmt(cell, line, stage, call, args, reads, writes) ==
    [cell |-> cell, line |-> line, stage |-> stage, call |-> call, args |-> args,
     reads |-> reads, writes |-> writes]

Cell1 ==
    << Stmt(1, 28, "setup", "%matplotlib", {},
            {}, {}),
       Stmt(1, 29, "setup", "import", {},
            {}, {"np"}),
       Stmt(1, 30, "setup", "import", {},
            {}, {"pd"}),
       Stmt(1, 31, "setup", "import", {},
            {}, {"plt"}),
       Stmt(1, 32, "setup", "import", {},
            {}, {"sns"}),
       Stmt(1, 33, "setup", "sns.set", {"style"},
            {"sns"}, {}),
       Stmt(1, 35, "setup", "import", {},
            {}, {"theano"}),
       Stmt(1, 36, "setup", "import", {},
            {}, {"tt"}),
       Stmt(1, 37, "setup", "import", {},
            {}, {"pm"}),
       Stmt(1, 38, "setup", "import", {},
            {}, {"optimize"}),
       Stmt(1, 39, "setup", "import", {},
            {}, {"interact"}),
       Stmt(1, 40, "setup", "import IPython", {},
            {}, {"SVG"}),
       Stmt(1, 41, "setup", "import", {},
            {}, {"datasets"}),
       Stmt(1, 42, "setup", "import", {},
            {}, {"train_test_split"}),
       Stmt(1, 43, "setup", "import", {},
            {}, {"scale"}),
       Stmt(1, 45, "setup", "theano.config.floatX", {},
            {"theano"}, {"floatX"}),
       Stmt(1, 46, "setup", "theano.config.compute_test_value", {},
            {"theano"}, {}) >>

Cell2 ==
    << Stmt(2, 55, "data", "make_moons", {"noise", "n_samples"},
            {"datasets"}, {"X", "y"}),
       Stmt(2, 56, "data", "scale", {},
            {"scale", "X"}, {"X"}),
       Stmt(2, 58, "plot", "plt.subplots", {},
            {"plt"}, {"fig", "ax"}),
       Stmt(2, 59, "plot", "ax.scatter", {"label"},
            {"ax", "X", "y"}, {}),
       Stmt(2, 60, "plot", "ax.scatter", {"color", "label"},
            {"ax", "X", "y"}, {}),
       Stmt(2, 61, "plot", "sns.despine", {},
            {"sns"}, {}),
       Stmt(2, 61, "plot", "ax.legend", {},
            {"ax"}, {}),
       Stmt(2, 62, "plot", "ax.set", {"xlabel", "ylabel", "title"},
            {"ax"}, {}) >>

(* Variant: the split is given a seed, random_state=42. *)
Cell3Seeded ==
    << Stmt(3, 80, "data", "astype_X", {},
            {"X", "floatX"}, {"X"}),
       Stmt(3, 81, "data", "astype_y", {},
            {"y", "floatX"}, {"y"}),
       Stmt(3, 82, "data", "train_test_split", {"test_size", "random_state"},
            {"train_test_split", "X", "y"}, {"X_train", "X_test", "y_train", "y_test"}),
       Stmt(3, 84, "data", "shared_X", {},
            {"theano", "X_train"}, {"ann_input"}),
       Stmt(3, 85, "data", "shared_y", {},
            {"theano", "y_train"}, {"ann_output"}) >>

Cell3 ==
    << Stmt(3, 80, "data", "astype_X", {},
            {"X", "floatX"}, {"X"}),
       Stmt(3, 81, "data", "astype_y", {},
            {"y", "floatX"}, {"y"}),
       Stmt(3, 82, "data", "train_test_split", {"test_size"},
            {"train_test_split", "X", "y"}, {"X_train", "X_test", "y_train", "y_test"}),
       Stmt(3, 84, "data", "shared_X", {},
            {"theano", "X_train"}, {"ann_input"}),
       Stmt(3, 85, "data", "shared_y", {},
            {"theano", "y_train"}, {"ann_output"}) >>

Cell4 ==
    << Stmt(4, 101, "model", "", {},
            {}, {"n_hidden"}),
       Stmt(4, 103, "model", "randn_1", {},
            {"np", "X", "n_hidden", "floatX"}, {"init_1"}),
       Stmt(4, 104, "model", "randn_2", {},
            {"np", "n_hidden", "floatX"}, {"init_2"}),
       Stmt(4, 105, "model", "randn_out", {},
            {"np", "n_hidden", "floatX"}, {"init_out"}) >>

Cell5 ==
    << Stmt(5, 121, "model", "pm.Model", {},
            {"pm"}, {"neural_network"}),
       Stmt(5, 124, "model", "Normal_in_1", {"sd", "shape", "testval"},
            {"pm", "X", "n_hidden", "init_1"}, {"weights_in_1"}),
       Stmt(5, 129, "model", "Normal_1_2", {"sd", "shape", "testval"},
            {"pm", "n_hidden", "init_2"}, {"weights_1_2"}),
       Stmt(5, 134, "model", "Normal_2_out", {"sd", "shape", "testval"},
            {"pm", "n_hidden", "init_out"}, {"weights_2_out"}),
       Stmt(5, 139, "model", "act_1", {},
            {"pm", "ann_input", "weights_in_1"}, {"act_1"}),
       Stmt(5, 141, "model", "act_2", {},
            {"pm", "act_1", "weights_1_2"}, {"act_2"}),
       Stmt(5, 143, "model", "act_out", {},
            {"pm", "act_2", "weights_2_out"}, {"act_out"}),
       Stmt(5, 147, "model", "Bernoulli", {"observed", "total_size"},
            {"pm", "act_out", "ann_output", "y_train"}, {"out"}) >>

Cell6 ==
    << Stmt(6, 169, "inference", "with_model", {},
            {"neural_network"}, {}),
       Stmt(6, 170, "inference", "pm.fit", {"n"},
            {"pm"}, {"approx"}) >>

Cell7 ==
    << Stmt(7, 186, "sampling", "approx.sample", {"draws"},
            {"approx"}, {"trace"}) >>

Cell8 ==
    << Stmt(8, 202, "plot", "plt.plot", {"alpha"},
            {"plt", "approx"}, {}),
       Stmt(8, 203, "plot", "plt.legend", {},
            {"plt"}, {}),
       Stmt(8, 204, "plot", "plt.ylabel", {},
            {"plt"}, {}),
       Stmt(8, 205, "plot", "plt.xlabel", {},
            {"plt"}, {}) >>

Cell9 ==
    << Stmt(9, 225, "sampling", "tt.matrix", {},
            {"tt"}, {"x"}),
       Stmt(9, 227, "sampling", "tt.iscalar", {},
            {"tt"}, {"n"}),
       Stmt(9, 229, "sampling", "np.empty_like", {},
            {"x", "np", "X_train"}, {}),
       Stmt(9, 230, "sampling", "test_value", {},
            {"n"}, {}),
       Stmt(9, 231, "sampling", "sample_node", {"size", "more_replacements"},
            {"approx", "neural_network", "n", "ann_input", "x"}, {"_sample_proba"}),
       Stmt(9, 237, "sampling", "theano.function", {},
            {"theano", "x", "n", "_sample_proba"}, {"sample_proba"}) >>

Cell10 ==
    << Stmt(10, 246, "sampling", "sample_proba_test", {},
            {"sample_proba", "X_test"}, {"pred"}) >>

Cell11 ==
    << Stmt(11, 255, "none", "print", {},
            {"y_test", "pred"}, {}) >>

Cell12 ==
    << Stmt(12, 264, "plot", "plt.subplots", {},
            {"plt"}, {"fig", "ax"}),
       Stmt(12, 265, "plot", "ax.scatter", {},
            {"ax", "X_test", "pred"}, {}),
       Stmt(12, 266, "plot", "ax.scatter", {"color"},
            {"ax", "X_test", "pred"}, {}),
       Stmt(12, 267, "plot", "sns.despine", {},
            {"sns"}, {}),
       Stmt(12, 268, "plot", "ax.set", {"title", "xlabel", "ylabel"},
            {"ax"}, {}) >>

Cell13 ==
    << Stmt(13, 286, "none", "np.mgrid", {},
            {"pm", "np"}, {"grid"}),
       Stmt(13, 287, "none", "reshape", {},
            {"grid"}, {"grid_2d"}),
       Stmt(13, 288, "none", "np.ones", {"dtype"},
            {"np", "grid"}, {"dummy_out"}) >>

Cell14 ==
    << Stmt(14, 297, "sampling", "sample_proba_grid", {},
            {"sample_proba", "grid_2d"}, {"ppc"}) >>

Cell15 ==
    << Stmt(15, 313, "plot", "sns.diverging_palette", {"s", "l", "as_cmap"},
            {"sns"}, {"cmap"}),
       Stmt(15, 314, "plot", "plt.subplots", {"figsize"},
            {"plt"}, {"fig", "ax"}),
       Stmt(15, 315, "plot", "contourf_mean", {"cmap"},
            {"ax", "grid", "ppc", "cmap"}, {"contour"}),
       Stmt(15, 316, "plot", "ax.scatter", {},
            {"ax", "X_test", "pred"}, {}),
       Stmt(15, 317, "plot", "ax.scatter", {"color"},
            {"ax", "X_test", "pred"}, {}),
       Stmt(15, 318, "plot", "plt.colorbar", {"ax"},
            {"plt", "contour", "ax"}, {"cbar"}),
       Stmt(15, 319, "plot", "ax.set", {"xlim", "ylim", "xlabel", "ylabel"},
            {"ax"}, {"_"}),
       Stmt(15, 320, "plot", "set_ylabel_mean", {},
            {"cbar"}, {}) >>

Cell16 ==
    << Stmt(16, 336, "plot", "sns.cubehelix_palette", {"light", "as_cmap"},
            {"sns"}, {"cmap"}),
       Stmt(16, 337, "plot", "plt.subplots", {"figsize"},
            {"plt"}, {"fig", "ax"}),
       Stmt(16, 338, "plot", "contourf_std", {"cmap"},
            {"ax", "grid", "ppc", "cmap"}, {"contour"}),
       Stmt(16, 339, "plot", "ax.scatter", {},
            {"ax", "X_test", "pred"}, {}),
       Stmt(16, 340, "plot", "ax.scatter", {"color"},
            {"ax", "X_test", "pred"}, {}),
       Stmt(16, 341, "plot", "plt.colorbar", {"ax"},
            {"plt", "contour", "ax"}, {"cbar"}),
       Stmt(16, 342, "plot", "ax.set", {"xlim", "ylim", "xlabel", "ylabel"},
            {"ax"}, {"_"}),
       Stmt(16, 343, "plot", "set_ylabel_std", {},
            {"cbar"}, {}) >>

(* Variant: the initial values (cell 4) are drawn before the data set is  *)
(* split (cell 3). *)
ProgInitsBeforeSplit ==
    Cell1 \o Cell2 \o Cell4 \o Cell3 \o Cell5 \o Cell6 \o Cell7 \o Cell8 \o
    Cell9 \o Cell10 \o Cell11 \o Cell12 \o Cell13 \o Cell14 \o Cell15 \o Cell16

(* The code cells in notebook order. *)
Prog ==
    Cell1 \o Cell2 \o Cell3 \o Cell4 \o Cell5 \o Cell6 \o Cell7 \o Cell8 \o
    Cell9 \o Cell10 \o Cell11 \o Cell12 \o Cell13 \o Cell14 \o Cell15 \o Cell16

Stmts == 1..Len(Prog)
Names == UNION {Prog[i].reads \cup Prog[i].writes : i \in Stmts}

(* The statement that makes call c (each data-bearing call occurs once). *)
(* Names the IPython kernel binds before any cell runs (_ = ''; of __, ___, *)
(* In, Out, ... the notebook uses none).  No cell of the notebook ends in  *)
(* a displayed value, so the display hook never rebinds _.                 *)
KernelNames == {"_"}

At(c) == CHOOSE i \in Stmts : Prog[i].call = c

Reads(i) == Prog[i].reads
(* Variant: the prediction is stored under another name than the one the  *)
(* later cells read. *)
BindsPredMisnamed(i) ==
    IF "pred" \in Prog[i].writes THEN {"preds"} ELSE Prog[i].writes
Binds(i) == Prog[i].writes

(* A statement that calls into a library can raise there, an import of a   *)
(* library (ModuleNotFoundError) and the %matplotlib magic included.       *)
(* n_hidden = 5 calls nothing, and IPython.display is part of the kernel   *)
(* that runs the cell.                                                     *)
CanRaise(i) == Prog[i].call \notin {"", "import IPython"}

(* The last statements of the two with blocks (with pm.Model() as          *)
(* neural_network: ... and with neural_network: ...): when one has         *)
(* returned, the block ends and Python calls the model's __exit__.         *)
BlockEnds == {"Bernoulli", "pm.fit"}
EndsBlock(i) == Prog[i].call \in BlockEnds

----------------------------------------------------------------------------
(* Sizes.  The notebook's 1000 samples and 500 draws are scaled down; the  *)
(* scaled sizes are the bounds of the model.                               *)
NSamples == 3      \* n_samples of make_moons (1000 in the notebook)
NDraws == 2        \* sampled networks per sample_proba call (500)

NFeatures == 2     \* make_moons returns points of the plane: X.shape[1]
n_hidden == 5
TestTenths == 3    \* test_size=.3
CbarLabelClass == 0 \* '... probability of class label = 0'
PosteriorDraws == 5000

ProbLevels == {25, 75}           \* a sigmoid output, in percent: strictly between 0 and 100
(* What the model keeps of the parameters pm.fit returns (a mean and a     *)
(* standard deviation per weight): whether the posterior is concentrated,  *)
(* the networks sampled from it agreeing on every probability level, or    *)
(* spread.  Which one results depends on the coordinates of X and on the   *)
(* initial values, which are not modelled.                                 *)
Concentrated == 1
Spread == 2
Fits == {Concentrated, Spread}
(* np.mgrid[-3:3:100j]: 100 points per axis from -3 to 3.  The model keeps *)
(* the first point of each axis, so the grid is its corner (-3, -3).       *)
GridAxis == {-3}

NoArray == [rows |-> {}, cols |-> 0, form |-> "none"]
NoVector == << >>
NoInit == [shape |-> << >>]
NoModel == [w_in_1 |-> << >>, w_1_2 |-> << >>, w_2_out |-> << >>,
            t_in_1 |-> << >>, t_1_2 |-> << >>, t_2_out |-> << >>,
            act_1 |-> << >>, act_2 |-> << >>, act_out |-> << >>,
            observed |-> "", total_size |-> 0]
NoApprox == [params |-> 0, rows |-> {}, labels |-> << >>, n_obs |-> 0, total_size |-> 0]
NoTrace == [draws |-> 0, of |-> 0]
NoNode == [of |-> "", size |-> "", replaced |-> {}]
NoFunction == [inputs |-> << >>, of |-> "", replaced |-> {}, updates |-> {}]
NoGrid == [axis |-> {}]
NoRun == [ran |-> FALSE, test |-> {}, train |-> {}]

(* shape of a matrix (rows x cols) and of a vector over rows *)
Shape(a) == <<Cardinality(a.rows), a.cols>>
Length(v) == Cardinality(DOMAIN v)

(* sklearn.datasets.make_moons: n // 2 points of the outer moon, label 0,  *)
(* and the others of the inner moon, label 1, then shuffled (shuffle=True  *)
(* by default): the returned labels are any arrangement of these.  The     *)
(* coordinates and their noise are not modelled.                           *)
MoonLabels ==
    {f \in [1..NSamples -> {0, 1}] :
        Cardinality({i \in 1..NSamples : f[i] = 0}) = NSamples \div 2}

(* sklearn's split sizes for a float test_size: ceil(test_size * n) rows   *)
(* for the test set and the others for the training set.                   *)
NTest(n) == (TestTenths * n + 9) \div 10
Splits(rows) == {t \in SUBSET rows : Cardinality(t) = NTest(Cardinality(rows))}

Restrict(f, D) == [r \in D |-> f[r]]

(* shape of pm.math.dot(a, b); << >> when the shapes are not aligned *)
DotShape(a, b) ==
    IF Len(a) = 2 /\ Len(b) = 2 /\ a[2] = b[1] THEN <<a[1], b[2]>>
    ELSE IF Len(a) = 2 /\ Len(b) = 1 /\ a[2] = b[1] THEN <<a[1]>>
    ELSE << >>

(* The network's output shape for an input of shape s: tanh and sigmoid    *)
(* are elementwise, so only the three products decide it.                  *)
Forward(s) ==
    DotShape(DotShape(DotShape(s, neural_network.w_in_1), neural_network.w_1_2),
             neural_network.w_2_out)

(* The random calls, by the generator they draw from: NumPy's global       *)
(* RandomState (sklearn's random_state=None and np.random.randn), which a  *)
(* fresh kernel seeds from the operating system's entropy, and the theano  *)
(* random stream of pymc3 (pm.fit, approx.sample and the sampled node),    *)
(* which starts from theano's default seed: what these calls return varies *)
(* between runs with the data and the initial values they are given.       *)
NumpyRandomCalls == {"make_moons", "train_test_split", "randn_1", "randn_2", "randn_out"}
TheanoRandomCalls == {"pm.fit", "approx.sample", "sample_proba_test", "sample_proba_grid"}
RandomCalls == NumpyRandomCalls \cup TheanoRandomCalls

(* What would seed a random call: a keyword argument of the call itself,   *)
(* or an earlier statement that seeds the generator the call draws from.   *)
SeedArgs == {"random_state", "random_seed", "seed"}
SeedingCall(c) == IF c \in NumpyRandomCalls THEN "np.random.seed" ELSE "pm.set_tt_rng"
Seeded(i) ==
    \/ Prog[i].args \cap SeedArgs # {}
    \/ \E j \in 1..(i - 1) : Prog[j].call = SeedingCall(Prog[i].call)

(* The results statement i, a call on NumPy's generator, can return among  *)
(* the candidates: a seed fixes one of them, the entropy-seeded generator  *)
(* of a fresh kernel leaves them all open.                                 *)
Draw(i, cands) == IF Seeded(i) THEN {CHOOSE v \in cands : TRUE} ELSE cands

(* pm.Bernoulli(p): the probability of label 1 is p, of label 0 is 1 - p. *)
BernoulliProb(p, label) == IF label = 1 THEN p ELSE 100 - p

RECURSIVE SumTo(_, _, _)
SumTo(m, r, d) == IF d = 0 THEN 0 ELSE m[d][r] + SumTo(m, r, d - 1)
(* sum over the draws (axis 0) of column r of the draws x rows matrix m *)
ColSum(m, r) == SumTo(m, r, Len(m))
(* m.mean(axis=0): per row the exact mean, as <<sum, number of draws>> *)
MeanAxis0(m) == [r \in DOMAIN m[1] |-> <<ColSum(m, r), Len(m)>>]

(* sample_node(..., more_replacements={ann_input: x}): the shared          *)
(* variables the sampled graph has replaced by a symbolic input.           *)
ReplacedArg(i) == IF "more_replacements" \in Prog[i].args THEN {"ann_input"} ELSE {}

(* theano.function(inputs, outputs, updates=...): the shared variables a   *)
(* call of the compiled function assigns.  Line 237 passes no updates.     *)
SharedNames == {"ann_input", "ann_output", "approx"}
UpdatesArg(i) == IF "updates" \in Prog[i].args THEN SharedNames ELSE {}

(* The matrix the compiled function's graph is evaluated on: sample_node   *)
(* replaced ann_input by the symbolic input x, so it is the argument.      *)
EvalInput(f, x) == IF "ann_input" \in f.replaced THEN x ELSE ann_input

(* What the shared variable name can hold after a call of the compiled     *)
(* function f: the value it held, unless f has an update for it.           *)
AfterCall(f, name, old, others) == IF name \in f.updates THEN others ELSE {old}

(* The results sample_proba(x, n) can return for the compiled function f   *)
(* and the approximation q it samples the weights from: n sampled          *)
(* probability vectors, one probability per row of the evaluated input.    *)
(* Under a concentrated posterior the n sampled networks agree, under a    *)
(* spread one they need not.  The probabilities themselves depend on the   *)
(* coordinates and weights, which are not modelled.                        *)
SampleProba(f, q, x, n) ==
    LET xin == EvalInput(f, x)
        all == [1..n -> [xin.rows -> ProbLevels]]
    IN  IF \/ f.inputs # <<"x", "n">> \/ q.params \notin Fits
           \/ Forward(Shape(xin)) # <<Cardinality(xin.rows)>>
        THEN {}
        ELSE IF q.params = Concentrated
             THEN {m \in all : \A d \in 1..n : m[d] = m[1]}
             ELSE all

----------------------------------------------------------------------------
(* A fresh kernel: nothing has run, only the kernel's own names are bound. *)
FreshKernel ==
    /\ pc = 1 /\ active = {} /\ exiting = FALSE
    /\ outcome = "running" /\ error = "none"
    /\ env = [nm \in Names |-> IF nm \in KernelNames THEN -1 ELSE 0]
    /\ stageLog = << >> /\ heldOutReads = {}
    /\ X = NoArray /\ y = NoVector
    /\ X_train = NoArray /\ X_test = NoArray
    /\ y_train = NoVector /\ y_test = NoVector
    /\ ann_input = NoArray /\ ann_output = NoVector
    /\ init_1 = NoInit /\ init_2 = NoInit /\ init_out = NoInit
    /\ neural_network = NoModel
    /\ approx = NoApprox /\ trace = NoTrace
    /\ node = NoNode /\ sample_proba = NoFunction
    /\ pred = NoVector /\ accuracy = << >>
    /\ grid = NoGrid /\ grid_2d = NoArray /\ ppc = << >>
    /\ surface = NoVector /\ cbarLabel = -1

Init == FreshKernel /\ lastRun = NoRun

split == <<X_train, X_test, y_train, y_test>>
shared == <<ann_input, ann_output>>
inits == <<init_1, init_2, init_out>>
fitted == <<approx, trace>>
predict == <<node, sample_proba, pred, accuracy>>
gridded == <<grid, grid_2d, ppc>>
plotted == <<surface, cbarLabel>>

(* The kernel takes the next statement: it looks up the names the          *)
(* statement reads (NameError when one is unbound) and enters its call.    *)
Log(i) ==
    LET st == Prog[i].stage
    IN  IF st \in {"setup", "none"} \/ (stageLog # << >> /\ stageLog[Len(stageLog)] = st)
        THEN stageLog ELSE Append(stageLog, st)

Begin ==
    /\ outcome = "running" /\ active = {} /\ pc \in Stmts
    /\ IF \E nm \in Reads(pc) : env[nm] = 0
       THEN /\ outcome' = "raised" /\ error' = "NameError"
            /\ UNCHANGED <<pc, active, exiting, env, stageLog, heldOutReads, lastRun>>
       ELSE /\ active' = {pc}
            /\ stageLog' = Log(pc)
            /\ heldOutReads' = IF Reads(pc) \cap {"X_test", "y_test"} # {}
                               THEN heldOutReads \cup {pc} ELSE heldOutReads
            /\ UNCHANGED <<pc, exiting, outcome, error, env, lastRun>>
    /\ UNCHANGED dat

InCall(c) == outcome = "running" /\ active = {pc} /\ ~exiting /\ Prog[pc].call = c

(* The statement's call returns: its targets are bound and the next        *)
(* statement follows, or, at the end of a with block, the block's exit.    *)
Return ==
    /\ IF EndsBlock(pc)
       THEN pc' = pc /\ active' = {pc} /\ exiting' = TRUE
       ELSE pc' = pc + 1 /\ active' = {} /\ exiting' = exiting
    /\ env' = [nm \in Names |-> IF nm \in Binds(pc) THEN pc ELSE env[nm]]
    /\ UNCHANGED <<outcome, error, stageLog, heldOutReads, lastRun>>

(* Variant: a failing call is caught and its targets are bound to a        *)
(* fallback value. *)
RaiseBinding ==
    /\ outcome = "running" /\ active = {pc} /\ CanRaise(pc)
    /\ outcome' = "raised" /\ error' = "LibraryError" /\ active' = {}
    /\ env' = [nm \in Names |-> IF nm \in Binds(pc) THEN pc ELSE env[nm]]
    /\ UNCHANGED <<pc, exiting, stageLog, heldOutReads, lastRun, dat>>

(* The call raises, the statement's own or the __exit__ that follows it:   *)
(* the cell ends there and nothing more is bound; "Run All" stops at the   *)
(* first cell that raises.                                                 *)
Raise ==
    /\ outcome = "running" /\ active = {pc} /\ CanRaise(pc)
    /\ outcome' = "raised" /\ error' = "LibraryError" /\ active' = {}
    /\ UNCHANGED <<pc, exiting, env, stageLog, heldOutReads, lastRun, dat>>

(* Model.__exit__ returns: the with block is left, the next statement      *)
(* follows.  It changes none of the modelled values.                       *)
ExitBlock ==
    /\ outcome = "running" /\ active = {pc} /\ exiting
    /\ pc' = pc + 1 /\ active' = {} /\ exiting' = FALSE
    /\ UNCHANGED <<outcome, error, env, stageLog, heldOutReads, lastRun, dat>>

Finish ==
    /\ outcome = "running" /\ active = {} /\ pc = Len(Prog) + 1
    /\ outcome' = "finished"
    /\ UNCHANGED <<pc, active, exiting, error, env, stageLog, heldOutReads, lastRun, dat>>

----------------------------------------------------------------------------
(* Cell 2 *)
MakeMoons ==
    /\ InCall("make_moons") /\ Return
    /\ X' = [rows |-> 1..NSamples, cols |-> NFeatures, form |-> "raw"]
    /\ \E f \in Draw(pc, MoonLabels) : y' = f
    /\ UNCHANGED <<split, shared, inits, neural_network, fitted, predict, gridded, plotted>>

Scale ==
    /\ InCall("scale") /\ Return
    /\ X' = [X EXCEPT !.form = "scaled"]
    /\ UNCHANGED <<y, split, shared, inits, neural_network, fitted, predict, gridded, plotted>>

(* Cell 3 *)
AstypeX ==
    /\ InCall("astype_X") /\ Return
    /\ X' = [X EXCEPT !.form = "floatX"]
    /\ UNCHANGED <<y, split, shared, inits, neural_network, fitted, predict, gridded, plotted>>

TrainTestSplit ==
    /\ InCall("train_test_split") /\ Return
    /\ \E t \in Draw(pc, Splits(X.rows)) :
          /\ X_test' = [X EXCEPT !.rows = t]
          /\ X_train' = [X EXCEPT !.rows = X.rows \ t]
          /\ y_test' = Restrict(y, t)
          /\ y_train' = Restrict(y, X.rows \ t)
    /\ UNCHANGED <<X, y, shared, inits, neural_network, fitted, predict, gridded, plotted>>

(* Variant: the shared input is given the whole data set. *)
SharedXAll ==
    /\ InCall("shared_X") /\ Return
    /\ ann_input' = X
    /\ UNCHANGED <<X, y, split, ann_output, inits, neural_network, fitted, predict,
                   gridded, plotted>>

SharedX ==
    /\ InCall("shared_X") /\ Return
    /\ ann_input' = X_train
    /\ UNCHANGED <<X, y, split, ann_output, inits, neural_network, fitted, predict,
                   gridded, plotted>>

SharedY ==
    /\ InCall("shared_y") /\ Return
    /\ ann_output' = y_train
    /\ UNCHANGED <<X, y, split, ann_input, inits, neural_network, fitted, predict,
                   gridded, plotted>>

(* Cell 4 *)
Randn1 ==
    /\ InCall("randn_1") /\ Return
    /\ init_1' = [shape |-> <<X.cols, n_hidden>>]
    /\ UNCHANGED <<X, y, split, shared, init_2, init_out, neural_network, fitted,
                   predict, gridded, plotted>>

Randn2 ==
    /\ InCall("randn_2") /\ Return
    /\ init_2' = [shape |-> <<n_hidden, n_hidden>>]
    /\ UNCHANGED <<X, y, split, shared, init_1, init_out, neural_network, fitted,
                   predict, gridded, plotted>>

RandnOut ==
    /\ InCall("randn_out") /\ Return
    /\ init_out' = [shape |-> <<n_hidden>>]
    /\ UNCHANGED <<X, y, split, shared, init_1, init_2, neural_network, fitted,
                   predict, gridded, plotted>>

(* Cell 5 *)
Declare(new) ==
    /\ Return
    /\ neural_network' = new
    /\ UNCHANGED <<X, y, split, shared, inits, fitted, predict, gridded, plotted>>

PmModel == InCall("pm.Model") /\ Declare(NoModel)

(* Variant: the first weight matrix is declared transposed. *)
NormalIn1Transposed ==
    /\ InCall("Normal_in_1")
    /\ Declare([neural_network EXCEPT !.w_in_1 = <<n_hidden, X.cols>>,
                                      !.t_in_1 = init_1.shape])

NormalIn1 ==
    /\ InCall("Normal_in_1")
    /\ Declare([neural_network EXCEPT !.w_in_1 = <<X.cols, n_hidden>>,
                                      !.t_in_1 = init_1.shape])

Normal12 ==
    /\ InCall("Normal_1_2")
    /\ Declare([neural_network EXCEPT !.w_1_2 = <<n_hidden, n_hidden>>,
                                      !.t_1_2 = init_2.shape])

Normal2Out ==
    /\ InCall("Normal_2_out")
    /\ Declare([neural_network EXCEPT !.w_2_out = <<n_hidden>>,
                                      !.t_2_out = init_out.shape])

Act1 ==
    /\ InCall("act_1")
    /\ Declare([neural_network EXCEPT
                   !.act_1 = DotShape(Shape(ann_input), neural_network.w_in_1)])

Act2 ==
    /\ InCall("act_2")
    /\ Declare([neural_network EXCEPT
                   !.act_2 = DotShape(neural_network.act_1, neural_network.w_1_2)])

ActOut ==
    /\ InCall("act_out")
    /\ Declare([neural_network EXCEPT
                   !.act_out = DotShape(neural_network.act_2, neural_network.w_2_out)])

(* Variant: total_size is the size of the whole data set, y.shape[0]. *)
BernoulliAllRows ==
    /\ InCall("Bernoulli")
    /\ Declare([neural_network EXCEPT !.observed = "ann_output",
                                      !.total_size = Length(y)])

Bernoulli ==
    /\ InCall("Bernoulli")
    /\ Declare([neural_network EXCEPT !.observed = "ann_output",
                                      !.total_size = Length(y_train)])

(* Cell 6: pm.fit runs ADVI on the model's graph, whose input and observed *)
(* data are whatever the two shared variables hold at that time.  The      *)
(* likelihood needs one probability per observed label.                    *)
Fit ==
    /\ InCall("pm.fit") /\ Return
    /\ neural_network.observed = "ann_output"
    /\ Forward(Shape(ann_input)) = <<Length(ann_output)>>
    /\ \E k \in Fits :
          approx' = [params |-> k, rows |-> ann_input.rows, labels |-> ann_output,
                     n_obs |-> Length(ann_output),
                     total_size |-> neural_network.total_size]
    /\ UNCHANGED <<X, y, split, shared, inits, neural_network, trace, predict,
                   gridded, plotted>>

(* Cell 7: draws from the approximation; the drawn values are not         *)
(* modelled (no later statement reads trace).                              *)
Sample ==
    /\ InCall("approx.sample") /\ Return
    /\ approx.params \in Fits
    /\ trace' = [draws |-> PosteriorDraws, of |-> approx.params]
    /\ UNCHANGED <<X, y, split, shared, inits, neural_network, approx, predict,
                   gridded, plotted>>

(* Cell 9 *)
SampleNode ==
    /\ InCall("sample_node") /\ Return
    /\ node' = [of |-> "out.distribution.p", size |-> "n", replaced |-> ReplacedArg(pc)]
    /\ UNCHANGED <<X, y, split, shared, inits, neural_network, fitted, sample_proba,
                   pred, accuracy, gridded, plotted>>

TheanoFunction ==
    /\ InCall("theano.function") /\ Return
    /\ sample_proba' = [inputs |-> <<"x", "n">>, of |-> node.of,
                        replaced |-> node.replaced, updates |-> UpdatesArg(pc)]
    /\ UNCHANGED <<X, y, split, shared, inits, neural_network, fitted, node,
                   pred, accuracy, gridded, plotted>>

(* A call of the compiled function: it returns one of the results          *)
(* sample_proba(x, n) can return and assigns the shared variables the      *)
(* function has updates for.                                               *)
Call(x, m) ==
    /\ m \in SampleProba(sample_proba, approx, x, NDraws)
    /\ ann_input' \in AfterCall(sample_proba, "ann_input", ann_input, {x})
    /\ ann_output' \in AfterCall(sample_proba, "ann_output", ann_output, {NoVector})
    /\ approx' \in AfterCall(sample_proba, "approx", approx,
                             {[approx EXCEPT !.params = k] : k \in Fits \ {approx.params}})

(* Variant: prediction the other way, by setting the shared variables to   *)
(* the hold-out data before the network is sampled.                        *)
PredictTestSetValue ==
    /\ InCall("sample_proba_test") /\ Return
    /\ \E m \in SampleProba(sample_proba, approx, X_test, NDraws) :
          pred' = [r \in DOMAIN m[1] |-> 2 * ColSum(m, r) > Len(m) * 100]
    /\ ann_input' = X_test /\ ann_output' = y_test
    /\ UNCHANGED <<X, y, split, inits, neural_network, fitted, node,
                   sample_proba, accuracy, gridded, plotted>>

(* Cell 10: pred = sample_proba(X_test, 500).mean(0) > 0.5 *)
PredictTest ==
    /\ InCall("sample_proba_test") /\ Return
    /\ \E m \in SampleProba(sample_proba, approx, X_test, NDraws) :
          /\ Call(X_test, m)
          /\ pred' = [r \in DOMAIN m[1] |-> 2 * ColSum(m, r) > Len(m) * 100]
    /\ UNCHANGED <<X, y, split, inits, neural_network, trace, node,
                   sample_proba, accuracy, gridded, plotted>>

(* Cell 11: (y_test == pred).mean(), kept as <<hits, rows>> *)
PrintAccuracy ==
    /\ InCall("print") /\ Return
    /\ DOMAIN pred = DOMAIN y_test
    /\ accuracy' = <<Cardinality({r \in DOMAIN pred : (y_test[r] = 1) = pred[r]}),
                     Length(pred)>>
    /\ UNCHANGED <<X, y, split, shared, inits, neural_network, fitted, node,
                   sample_proba, pred, gridded, plotted>>

(* Cell 13 *)
Mgrid ==
    /\ InCall("np.mgrid") /\ Return
    /\ grid' = [axis |-> GridAxis]
    /\ UNCHANGED <<X, y, split, shared, inits, neural_network, fitted, predict,
                   grid_2d, ppc, plotted>>

Reshape ==
    /\ InCall("reshape") /\ Return
    /\ grid_2d' = [rows |-> grid.axis \X grid.axis, cols |-> 2,
                   form |-> "floatX"]
    /\ UNCHANGED <<X, y, split, shared, inits, neural_network, fitted, predict,
                   grid, ppc, plotted>>

(* Cell 14: ppc = sample_proba(grid_2d, 500) *)
PredictGrid ==
    /\ InCall("sample_proba_grid") /\ Return
    /\ \E m \in SampleProba(sample_proba, approx, grid_2d, NDraws) :
          Call(grid_2d, m) /\ ppc' = m
    /\ UNCHANGED <<X, y, split, inits, neural_network, trace, predict,
                   grid, grid_2d, plotted>>

(* Cell 15: contourf(grid[0], grid[1], ppc.mean(axis=0).reshape(100, 100)) *)
ContourMean ==
    /\ InCall("contourf_mean") /\ Return
    /\ Cardinality(DOMAIN ppc[1]) = Cardinality(GridAxis) * Cardinality(GridAxis)
    /\ surface' = MeanAxis0(ppc)
    /\ UNCHANGED <<X, y, split, shared, inits, neural_network, fitted, predict,
                   gridded, cbarLabel>>

SetYlabelMean ==
    /\ InCall("set_ylabel_mean") /\ Return
    /\ cbarLabel' = CbarLabelClass
    /\ UNCHANGED <<X, y, split, shared, inits, neural_network, fitted, predict,
                   gridded, surface>>

(* The calls that change none of the modelled values: imports, settings,   *)
(* the symbolic inputs, y.astype (the labels stay 0 and 1), np.ones, and   *)
(* the plotting calls other than the two above.                            *)
Valued ==
    {"make_moons", "scale", "astype_X", "train_test_split", "shared_X", "shared_y",
     "randn_1", "randn_2", "randn_out", "pm.Model", "Normal_in_1", "Normal_1_2",
     "Normal_2_out", "act_1", "act_2", "act_out", "Bernoulli", "pm.fit",
     "approx.sample", "sample_node", "theano.function", "sample_proba_test", "print",
     "np.mgrid", "reshape", "sample_proba_grid", "contourf_mean", "set_ylabel_mean"}

Plain ==
    /\ outcome = "running" /\ active = {pc} /\ ~exiting /\ Prog[pc].call \notin Valued
    /\ Return
    /\ UNCHANGED dat

Next ==
    \/ Begin \/ Raise \/ ExitBlock \/ Finish \/ Plain
    \/ MakeMoons \/ Scale \/ AstypeX \/ TrainTestSplit \/ SharedX \/ SharedY
    \/ Randn1 \/ Randn2 \/ RandnOut
    \/ PmModel \/ NormalIn1 \/ Normal12 \/ Normal2Out \/ Act1 \/ Act2 \/ ActOut
    \/ Bernoulli \/ Fit \/ Sample \/ SampleNode \/ TheanoFunction
    \/ PredictTest \/ PrintAccuracy \/ Mgrid \/ Reshape \/ PredictGrid
    \/ ContourMean \/ SetYlabelMean

Spec == Init /\ [][Next]_vars

(* "Restart & Run All" after a complete run: the kernel is fresh again,    *)
(* nothing of the first run is left in it.  What the first run's split     *)
(* was is kept aside, for comparing the two runs.                          *)
Restart ==
    /\ outcome = "finished" /\ ~lastRun.ran
    /\ lastRun' = [ran |-> TRUE, test |-> X_test.rows, train |-> X_train.rows]
    /\ pc' = 1 /\ active' = {} /\ exiting' = FALSE
    /\ outcome' = "running" /\ error' = "none"
    /\ env' = [nm \in Names |-> IF nm \in KernelNames THEN -1 ELSE 0]
    /\ stageLog' = << >> /\ heldOutReads' = {}
    /\ X' = NoArray /\ y' = NoVector
    /\ X_train' = NoArray /\ X_test' = NoArray
    /\ y_train' = NoVector /\ y_test' = NoVector
    /\ ann_input' = NoArray /\ ann_output' = NoVector
    /\ init_1' = NoInit /\ init_2' = NoInit /\ init_out' = NoInit
    /\ neural_network' = NoModel
    /\ approx' = NoApprox /\ trace' = NoTrace
    /\ node' = NoNode /\ sample_proba' = NoFunction
    /\ pred' = NoVector /\ accuracy' = << >>
    /\ grid' = NoGrid /\ grid_2d' = NoArray /\ ppc' = << >>
    /\ surface' = NoVector /\ cbarLabel' = -1

NextRerun == Next \/ Restart

(* One complete run, or two of them from the same fresh kernel. *)
SpecRerun == Init /\ [][NextRerun]_vars

----------------------------------------------------------------------------
(* Properties *)

Bound(nm) == env[nm] # 0
Returned(c) == pc > At(c)
Fitted == approx.params # 0

(* C1: running the cells in order raises no NameError: every name the      *)
(* statement being run reads was bound by an earlier statement.            *)
C1_NamesBound ==
    /\ error # "NameError"
    /\ outcome = "running" /\ pc \in Stmts =>
          \A nm \in Reads(pc) : env[nm] \in 1..(pc - 1)

(* C1 witness: no call failed and the last statement of the last cell has  *)
(* returned, with the names the claim lists all bound.                     *)
C1_RanToEnd ==
    /\ outcome = "finished" /\ pc = Len(Prog) + 1
    /\ \A nm \in {"X", "y", "floatX", "X_train", "X_test", "y_train", "y_test",
                   "ann_input", "ann_output", "n_hidden", "init_1", "init_2",
                   "init_out", "neural_network", "approx", "sample_proba", "pred",
                   "grid", "grid_2d", "ppc"} : Bound(nm)

StageRank(st) ==
    CASE st = "data" -> 1 [] st = "model" -> 2 [] st = "inference" -> 3
      [] st = "sampling" -> 4 [] st = "plot" -> 5

InOrder(log) ==
    \A i, j \in 1..Len(log) : i < j => StageRank(log[i]) <= StageRank(log[j])

OneAtATime == Cardinality(active) <= 1 /\ active \subseteq {pc}

(* C2 as stated: one call at a time, and the stages are entered in the     *)
(* order data, model, inference, sampling, plotting, none of them again    *)
(* after a later one.                                                      *)
C2_StagesInOrder == OneAtATime /\ InOrder(stageLog)

(* C2 amended: one call at a time, and the stages data, model, inference,  *)
(* sampling are entered in that order, none of them again after a later    *)
(* one of the four; plotting calls are interleaved with them.              *)
C2_CoreStagesInOrder ==
    OneAtATime /\ InOrder(SelectSeq(stageLog, LAMBDA st : st # "plot"))

(* C2 witness: the complete run, plotting entered four times before the    *)
(* last sampling call.                                                     *)
C2_PlotsInterleaved ==
    /\ outcome = "finished"
    /\ stageLog = <<"data", "plot", "data", "model", "inference", "sampling", "plot",
                    "sampling", "plot", "sampling", "plot">>

(* C3: no random call of the notebook is seeded: none is given a           *)
(* random_state or random_seed and no earlier statement seeds its          *)
(* generator.  So whenever make_moons or train_test_split is being called, *)
(* in a first run or in a run after a restart, each arrangement of the     *)
(* labels and each split of the rows is a possible result, more than one,  *)
(* whatever the run before produced.                                       *)
C3_Unseeded ==
    \A i \in active :
        /\ Prog[i].call \in RandomCalls => ~Seeded(i)
        /\ Prog[i].call = "make_moons" =>
              /\ Cardinality(MoonLabels) > 1
              /\ \A f \in MoonLabels : ENABLED (MakeMoons /\ y' = f)
        /\ Prog[i].call = "train_test_split" =>
              /\ Cardinality(Splits(X.rows)) > 1
              /\ \A t \in Splits(X.rows) : ENABLED (TrainTestSplit /\ X_test'.rows = t)

(* C3 witness: two complete runs from the same fresh kernel; the second    *)
(* holds out other rows than the first, so its approximation is fitted to  *)
(* other rows and its predictions are of other rows.                       *)
C3_RunsDiffer ==
    /\ outcome = "finished" /\ lastRun.ran
    /\ X_test.rows # lastRun.test /\ X_train.rows # lastRun.train
    /\ approx.rows # lastRun.train /\ DOMAIN pred # lastRun.test
    /\ Bound("X_test") /\ Bound("approx") /\ Bound("pred")

(* C4 as stated: when a call has failed, every name its statement would    *)
(* have assigned is unbound.                                               *)
C4_TargetsUnbound ==
    outcome = "raised" /\ error = "LibraryError" =>
        \A nm \in Binds(pc) : ~Bound(nm)

(* C4 amended: a failure is final (no step follows it: no retry, no        *)
(* fallback, no next cell) and it changes nothing: every name, the targets *)
(* of the failing statement included, keeps the binding and value it had   *)
(* when the failing call was made.  When that call is the __exit__ of a    *)
(* with block, the block's last statement has bound its targets by then.   *)
C4_FailureIsFinal ==
    [][/\ outcome # "raised"
       /\ outcome' = "raised" =>
             /\ pc' = pc /\ env' = env /\ dat' = dat
             /\ error' \in {"LibraryError", "NameError"}
             /\ exiting => EndsBlock(pc) /\ \A nm \in Binds(pc) : env[nm] = pc]_vars

(* C4 witness: pm.fit has failed; approx is unbound, the model and the     *)
(* data bound by the earlier cells are still there.                        *)
C4_FitFailed ==
    /\ outcome = "raised" /\ error = "LibraryError" /\ pc = At("pm.fit")
    /\ ~Bound("approx") /\ Bound("neural_network") /\ Bound("ann_input")
    /\ neural_network.total_size = Length(y_train)

(* C5: the split is a partition of the samples with the test share of .3,  *)
(* the shared variables hold the training partition when pm.fit runs, the  *)
(* fit has seen no hold-out row, and no statement reads X_test or y_test   *)
(* before sample_proba(X_test, 500).                                       *)
C5_HoldOut ==
    /\ Bound("X_test") =>
          /\ X_train.rows \cap X_test.rows = {}
          /\ X_train.rows \cup X_test.rows = X.rows
          /\ X.rows = 1..NSamples
          /\ 10 * Cardinality(X_test.rows) >= TestTenths * NSamples
          /\ 10 * (Cardinality(X_test.rows) - 1) < TestTenths * NSamples
          /\ y_train = Restrict(y, X_train.rows)
          /\ y_test = Restrict(y, X_test.rows)
    /\ pc = At("pm.fit") =>
          ann_input = X_train /\ ann_output = y_train
    /\ Fitted =>
          /\ approx.rows = X_train.rows /\ approx.labels = y_train
          /\ approx.rows \cap X_test.rows = {}
    /\ \A i \in heldOutReads : i >= At("sample_proba_test")

(* C5 witness: the fit is done and the hold-out set has been predicted. *)
C5_PredictedHoldOut ==
    /\ Fitted /\ Bound("pred") /\ heldOutReads # {}
    /\ X_test.rows # {} /\ X_train.rows # {}
    /\ DOMAIN pred = X_test.rows

(* C6: the surface of the first contour plot is the mean over the sampled  *)
(* networks of the probability of the class its colour bar names.          *)
C6_SurfaceIsLabelledClass ==
    cbarLabel # -1 =>
        \A r \in DOMAIN surface :
            /\ surface[r][2] = Len(ppc)
            /\ surface[r][1] =
                   ColSum([d \in 1..Len(ppc) |->
                             [q \in DOMAIN ppc[d] |-> BernoulliProb(ppc[d][q], cbarLabel)]], r)

(* The result of a call on the rows of x with n draws has n vectors with   *)
(* one probability for each row of x.                                      *)
ResultShape(m, x, n) ==
    /\ Len(m) = n
    /\ \A d \in 1..n : DOMAIN m[d] = x.rows /\ \A r \in x.rows : m[d][r] \in ProbLevels

(* Matrices of any number of rows, of the width the network was built for. *)
Matrices == {[rows |-> rs, cols |-> NFeatures, form |-> "floatX"] : rs \in SUBSET (1..NSamples)}

(* Whatever the number of draws, a call on x has a result, and every       *)
(* result it can have has the shape of x.                                  *)
Shaped(x) ==
    \A n \in 0..NDraws :
        /\ SampleProba(sample_proba, approx, x, n) # {}
        /\ \A m \in SampleProba(sample_proba, approx, x, n) : ResultShape(m, x, n)

(* What a call of sample_proba computes from. *)
ComputesFrom == <<sample_proba, node, neural_network, approx, ann_input, ann_output>>

C7_Shapes ==
    /\ Returned("theano.function") =>
          /\ sample_proba.inputs = <<"x", "n">>
          /\ sample_proba.replaced = {"ann_input"}
          /\ sample_proba.updates = {}
    /\ InCall("sample_proba_test") \/ InCall("sample_proba_grid") =>
          /\ approx.params \in Fits
          /\ \A x \in Matrices : Shaped(x)
          /\ Shaped(X_test)
          /\ Bound("grid_2d") => Shaped(grid_2d)
    /\ Bound("pred") => DOMAIN pred = X_test.rows
    /\ Bound("ppc") => ResultShape(ppc, grid_2d, NDraws)
    /\ Returned("sample_proba_test") =>
          /\ ann_input = X_train /\ ann_output = y_train
          /\ approx.rows = X_train.rows /\ approx.labels = y_train
          /\ approx.params \in Fits

C7_Frame ==
    /\ active = {pc} /\ pc' = pc + 1
    /\ Prog[pc].call \in {"sample_proba_test", "sample_proba_grid"}
    => ComputesFrom' = ComputesFrom

(* C7: the compiled function has the inputs x and n, the sampled graph has *)
(* x in the place of ann_input and no updates.  For a matrix x of any      *)
(* number of rows R and any n, every result a call can return has n        *)
(* vectors with one probability for each of the R rows of x, whatever the  *)
(* training data's row count.  A call that returns leaves ann_input,       *)
(* ann_output, the approximation (its parameters included), the model and  *)
(* the compiled function as they were: the next call computes from the     *)
(* same.                                                                   *)
C7_SampleProbaFrame == []C7_Shapes /\ [][C7_Frame]_vars

(* C7 witness: both calls have returned, on inputs whose row counts differ *)
(* from the training set's, and the approximation is the fitted one.       *)
C7_BothCallsReturned ==
    /\ Returned("sample_proba_grid") /\ Bound("pred") /\ Bound("ppc")
    /\ Cardinality(X_test.rows) # Cardinality(ann_input.rows)
    /\ Cardinality(grid_2d.rows) # Cardinality(ann_input.rows)
    /\ approx.params \in Fits /\ approx.rows = ann_input.rows

(* C8: two hidden layers of 5 neurons; the weights have the shapes (2, 5), *)
(* (5, 5), (5,), the initial values the shapes of their priors, and the    *)
(* forward pass gives one output per input row, as many as the observed    *)
(* labels.                                                                 *)
C8_Conformable ==
    Bound("out") =>
        /\ neural_network.w_in_1 = <<2, 5>> /\ neural_network.t_in_1 = <<2, 5>>
        /\ neural_network.w_1_2 = <<5, 5>> /\ neural_network.t_1_2 = <<5, 5>>
        /\ neural_network.w_2_out = <<5>> /\ neural_network.t_2_out = <<5>>
        /\ init_1.shape = neural_network.w_in_1
        /\ init_2.shape = neural_network.w_1_2
        /\ init_out.shape = neural_network.w_2_out
        /\ neural_network.act_1 = <<Cardinality(ann_input.rows), 5>>
        /\ neural_network.act_2 = <<Cardinality(ann_input.rows), 5>>
        /\ neural_network.act_out = <<Length(ann_output)>>
        /\ \A rows \in 0..(NSamples + 1) : Forward(<<rows, 2>>) = <<rows>>

(* C8 witness: the model is declared, on a non-empty training set. *)
C8_Declared ==
    /\ Bound("out") /\ neural_network.observed = "ann_output"
    /\ neural_network.act_out = <<NSamples - NTest(NSamples)>>
    /\ Cardinality(ann_input.rows) > 0

(* C9: total_size is the number of observed labels when pm.fit runs, which *)
(* is the number of input rows: a full batch.                              *)
C9_FullBatch ==
    /\ pc = At("pm.fit") =>
          /\ neural_network.total_size = Length(ann_output)
          /\ neural_network.total_size = Cardinality(ann_input.rows)
    /\ Fitted => approx.total_size = approx.n_obs /\ approx.n_obs = Cardinality(approx.rows)

(* C9 witness: pm.fit has returned, fitted on the training rows. *)
C9_FittedFullBatch ==
    /\ Fitted /\ Returned("pm.fit")
    /\ approx.total_size = NSamples - NTest(NSamples) /\ approx.total_size > 0
====
